---- MODULE Spec2Model ----
(***************************************************************************)
(* Model of pdf_grid_showcase.py: the grid layout of create_mosaic, the    *)
(* prompt loops of get_user_input and the step order of main.              *)
(*                                                                         *)
(* A bitmap is a record [width, height]; the pixels of page number k       *)
(* (1-based) all carry the colour k, the black background is colour 0.     *)
(* The canvas is a function from pixel coordinates <<px, py>> to colours.  *)
(***************************************************************************)
EXTENDS Integers, Sequences, FiniteSets, TLC

\* ---- bounds of the model ----
MaxPages == 3
MaxColumns == 3
MaxNegColumns == 1
MaxPageWidth == 2
MaxPageHeight == 3
MaxEntries == 3

VARIABLES
    pc,             \* position of the running code
    caller,         \* who called the running function: "main" or "direct"
    images,         \* create_mosaic: the list of page bitmaps
    columns,        \* create_mosaic: the columns argument
    i,              \* create_mosaic: loop index of the placement loop
    rows, page_width, page_height, mosaic_width, mosaic_height,
    mosaic,         \* the canvas, or NoImage before Image.new
    placed,         \* the (x, y) of every page pasted so far, in page order
    exc,            \* the exception that ended the call, or NoExc
    call,           \* 1 during the first call of create_mosaic, 2 during the second
    first,          \* result of the first call (kept to compare the second with)
    given,          \* the arguments as they were when create_mosaic was called
    reads,          \* get_user_input: number of lines read from stdin so far
    console,        \* get_user_input: one record per input() call, in order
    in_columns, in_width,   \* get_user_input: the locals columns and width
    accepted,       \* the columns value with which the first loop was left
    page_count,     \* main: the result of get_pdf_page_count
    steps,          \* main: the steps that ran, in order
    printed,        \* main: the error messages shown to the user
    failure,        \* main: the failure that happened, or "none"
    exit_code,      \* process exit code, or NoExit while running
    output_written  \* whether the output file was written

vars == <<pc, caller, images, columns, i, rows, page_width, page_height,
          mosaic_width, mosaic_height, mosaic, placed, exc, call, first, given,
          reads, console, in_columns, in_width, accepted,
          page_count, steps, printed, failure, exit_code, output_written>>

mosaicVars == <<images, columns, i, rows, page_width, page_height,
                mosaic_width, mosaic_height, mosaic, placed, exc, call, first, given>>
inputVars == <<reads, console, in_columns, in_width, accepted>>
mainVars == <<page_count, steps, printed, failure, exit_code, output_written>>

\* no canvas allocated yet / no exception raised
NoImage == [allocated |-> FALSE, pix |-> << >>]
NoExc == [type |-> "none", msg |-> ""]
NoExit == -1
Unset == -1000

\* ------------------------------------------------------------------------
\* create_mosaic: pure helpers
\* ------------------------------------------------------------------------

Max(S) == CHOOSE m \in S : \A s \in S : s <= m

FloorDiv(n, c) ==
    IF c > 0 THEN n \div c ELSE -(n \div (-c))

\* math.ceil(num_pages / columns) for columns # 0 and num_pages >= 0
CeilDiv(n, c) ==
    IF c > 0
    THEN (IF n % c = 0 THEN n \div c ELSE (n \div c) + 1)
    ELSE -(n \div (-c))

FirstHeight(imgs) == imgs[1].height

\* page_height = max(img.height for img in images)
MaxHeight(imgs) == Max({imgs[k].height : k \in 1..Len(imgs)})

\* Image.new('RGB', (w, h), color='black')
NewImage(w, h) ==
    [allocated |-> TRUE, pix |-> [px \in (0..(w-1)) \X (0..(h-1)) |-> 0]]

PlaceXByIndex(idx, num_pages, cols, nrows, pw) ==
    LET row == idx \div cols
        remaining_pages == num_pages - (row * cols)
    IN  IF row = nrows - 1 /\ remaining_pages < cols
        THEN idx * pw + ((cols - remaining_pages) * pw) \div 2
        ELSE idx * pw

PlaceXHalfFirst(idx, num_pages, cols, nrows, pw) ==
    LET row == idx \div cols
        col == idx % cols
        remaining_pages == num_pages - (row * cols)
    IN  IF row = nrows - 1 /\ remaining_pages < cols
        THEN col * pw + ((cols - remaining_pages) \div 2) * pw
        ELSE col * pw

\* x of the page with 0-based index idx
PlaceX(idx, num_pages, cols, nrows, pw) ==
    LET row == idx \div cols
        col == idx % cols
        remaining_pages == num_pages - (row * cols)
    IN  IF row = nrows - 1
        THEN IF remaining_pages < cols
             THEN col * pw + ((cols - remaining_pages) * pw) \div 2
             ELSE col * pw
        ELSE col * pw

PlaceYNoHalf(idx, cols, ph, h) ==
    LET row == idx \div cols
        y == row * ph
    IN  IF h < ph THEN y + (ph - h) ELSE y

PlaceYOwnHeight(idx, cols, ph, h) ==
    LET row == idx \div cols
    IN  row * h

\* y of the page with 0-based index idx and height h
PlaceY(idx, cols, ph, h) ==
    LET row == idx \div cols
        y == row * ph
    IN  IF h < ph THEN y + ((ph - h) \div 2) ELSE y

\* mosaic.paste(img, (x, y)): the pixels of img that fall on the canvas
\* replace the canvas pixels there; anything outside the canvas is dropped.
Paste(canvas, img, colour, x, y) ==
    [canvas EXCEPT !.pix =
        [p \in DOMAIN canvas.pix |->
            IF /\ x <= p[1] /\ p[1] < x + img.width
               /\ y <= p[2] /\ p[2] < y + img.height
            THEN colour
            ELSE canvas.pix[p]]]

\* The source bitmap after mosaic.paste(img, ...): paste reads img and
\* leaves its size and pixels as they were.
PasteSourceCropped(img) == [img EXCEPT !.height = 1]

PasteSource(img) == img

ValueErrorNoImages == [type |-> "ValueError", msg |-> "No images to create mosaic"]
ZeroDivisionError == [type |-> "ZeroDivisionError", msg |-> "division by zero"]
ValueErrorSize == [type |-> "ValueError", msg |-> "Width and height must be >= 0"]

EntryExcRowsFirst(imgs, cols) ==
    IF cols = 0 THEN ZeroDivisionError
    ELSE IF Len(imgs) = 0 THEN ValueErrorNoImages
    ELSE NoExc

EntryExcValidated(imgs, cols) ==
    IF Len(imgs) = 0 THEN ValueErrorNoImages
    ELSE IF cols < 1 THEN [type |-> "ValueError", msg |-> "columns must be positive"]
    ELSE NoExc

\* The exception raised by the first statements of create_mosaic: the
\* emptiness check, then the division num_pages / columns.
EntryExc(imgs, cols) ==
    IF Len(imgs) = 0 THEN ValueErrorNoImages
    ELSE IF cols = 0 THEN ZeroDivisionError
    ELSE NoExc

\* The exception Image.new raises for a negative size.
NewImageExc(w, h) == IF w < 0 \/ h < 0 THEN ValueErrorSize ELSE NoExc

\* ------------------------------------------------------------------------
\* create_mosaic: the steps of one call
\* ------------------------------------------------------------------------

\* what a finished call hands to its caller
Result == [mosaic |-> mosaic, placed |-> placed, exc |-> exc,
           size |-> <<mosaic_width, mosaic_height>>]

\* an exception leaves create_mosaic: a direct caller sees it, main does
\* not catch it
RaisedPc == IF caller = "main" THEN "main_uncaught" ELSE "cm_raised"

\* if not images: raise ValueError(...); num_pages / columns
CmEntry ==
    /\ pc = "cm_entry"
    /\ IF EntryExc(images, columns) # NoExc
       THEN /\ exc' = EntryExc(images, columns)
            /\ pc' = RaisedPc
       ELSE /\ exc' = exc
            /\ pc' = "cm_size"
    /\ UNCHANGED <<caller, images, columns, i, rows, page_width, page_height,
                   mosaic_width, mosaic_height, mosaic, placed, call, first, given>>
    /\ UNCHANGED inputVars
    /\ UNCHANGED mainVars

\* rows, page_width, page_height, mosaic_width, mosaic_height
CmSize ==
    /\ pc = "cm_size"
    /\ rows' = CeilDiv(Len(images), columns)
    /\ page_width' = images[1].width
    /\ page_height' = MaxHeight(images)
    /\ mosaic_width' = columns * page_width'
    /\ mosaic_height' = rows' * page_height'
    /\ pc' = "cm_new"
    /\ UNCHANGED <<caller, images, columns, i, mosaic, placed, exc, call, first, given>>
    /\ UNCHANGED inputVars
    /\ UNCHANGED mainVars

\* mosaic = Image.new('RGB', (mosaic_width, mosaic_height), color='black')
CmNew ==
    /\ pc = "cm_new"
    /\ IF NewImageExc(mosaic_width, mosaic_height) # NoExc
       THEN /\ exc' = NewImageExc(mosaic_width, mosaic_height)
            /\ pc' = RaisedPc
            /\ UNCHANGED <<mosaic, i>>
       ELSE /\ mosaic' = NewImage(mosaic_width, mosaic_height)
            /\ i' = 0
            /\ pc' = "cm_loop"
            /\ exc' = exc
    /\ UNCHANGED <<caller, images, columns, rows, page_width, page_height,
                   mosaic_width, mosaic_height, placed, call, first, given>>
    /\ UNCHANGED inputVars
    /\ UNCHANGED mainVars

\* one iteration of "for i, img in enumerate(images)"
CmPlace ==
    /\ pc = "cm_loop"
    /\ i < Len(images)
    /\ LET img == images[i + 1]
           x == PlaceX(i, Len(images), columns, rows, page_width)
           y == PlaceY(i, columns, page_height, img.height)
       IN  /\ mosaic' = Paste(mosaic, img, i + 1, x, y)
           /\ placed' = Append(placed, <<x, y>>)
           /\ images' = [images EXCEPT ![i + 1] = PasteSource(img)]
    /\ i' = i + 1
    /\ UNCHANGED <<pc, caller, columns, rows, page_width, page_height,
                   mosaic_width, mosaic_height, exc, call, first, given>>
    /\ UNCHANGED inputVars
    /\ UNCHANGED mainVars

\* return mosaic
CmReturn ==
    /\ pc = "cm_loop"
    /\ i = Len(images)
    /\ pc' = IF caller = "main" THEN "main_save" ELSE "cm_returned"
    /\ IF caller = "main" THEN steps' = Append(steps, "compose") ELSE steps' = steps
    /\ UNCHANGED <<caller>>
    /\ UNCHANGED mosaicVars
    /\ UNCHANGED inputVars
    /\ UNCHANGED <<page_count, printed, failure, exit_code, output_written>>

\* A direct caller calls create_mosaic a second time with the arguments it
\* still holds; the locals of the new call start afresh.
CmCallAgain ==
    /\ caller = "direct"
    /\ pc \in {"cm_returned", "cm_raised"}
    /\ call = 1
    /\ call' = 2
    /\ first' = Result
    /\ pc' = "cm_entry"
    /\ i' = 0
    /\ rows' = Unset /\ page_width' = Unset /\ page_height' = Unset
    /\ mosaic_width' = Unset /\ mosaic_height' = Unset
    /\ mosaic' = NoImage
    /\ placed' = << >>
    /\ exc' = NoExc
    /\ UNCHANGED <<caller, images, columns, given>>
    /\ UNCHANGED inputVars
    /\ UNCHANGED mainVars

\* ---- the inputs a direct call is tried with ----
\* Page lists of 0..MaxPages bitmaps.  All bitmaps of a list have the width
\* the pages were rendered to ("All images should have the same width (we
\* resized them), but heights might vary"); the heights vary freely.
PageLists ==
    UNION { { [k \in 1..n |-> [width |-> w, height |-> hs[k]]] :
                hs \in [1..n -> 1..MaxPageHeight], w \in 1..MaxPageWidth } :
            n \in 0..MaxPages }

ColumnsArgs == (-MaxNegColumns)..MaxColumns

InitLocals ==
    /\ i = 0
    /\ rows = Unset /\ page_width = Unset /\ page_height = Unset
    /\ mosaic_width = Unset /\ mosaic_height = Unset
    /\ mosaic = NoImage
    /\ placed = << >>
    /\ exc = NoExc
    /\ call = 1
    /\ first = [mosaic |-> NoImage, placed |-> << >>, exc |-> NoExc,
                size |-> <<Unset, Unset>>]

InitInputIdle ==
    /\ reads = 0
    /\ console = << >>
    /\ in_columns = Unset
    /\ in_width = Unset
    /\ accepted = Unset

InitMainIdle ==
    /\ page_count = Unset
    /\ steps = << >>
    /\ printed = << >>
    /\ failure = "none"
    /\ exit_code = NoExit
    /\ output_written = FALSE

InitMosaic ==
    /\ pc = "cm_entry"
    /\ caller = "direct"
    /\ images \in PageLists
    /\ columns \in ColumnsArgs
    /\ given = [images |-> images, columns |-> columns]
    /\ InitLocals
    /\ InitInputIdle
    /\ InitMainIdle

NextMosaic ==
    \/ CmEntry
    \/ CmSize
    \/ CmNew
    \/ CmPlace
    \/ CmReturn
    \/ CmCallAgain

SpecMosaic == InitMosaic /\ [][NextMosaic]_vars

\* ------------------------------------------------------------------------
\* get_user_input
\* ------------------------------------------------------------------------

\* A line typed on stdin is a sequence of characters.
Digits == {"0", "1", "2"}

\* the lines tried at a prompt
Entries ==
    { << >>, <<" ">>, <<"x">>, <<"-">>, <<"0">>, <<"1">>, <<"2">>,
      <<"-", "1">>, <<"-", "0">>, <<"1", "0">>, <<"0", "2">>, <<" ", "2">>,
      <<"1", " ">>, <<"1", "x">>, <<"-", "-">>, <<"1", "-">>,
      <<"1", " ", "2">>, <<" ", "-", "2">>, <<"2", "1", "0">> }

\* the lines tried when main runs the prompts
MainEntries == { <<"0">>, <<"x">>, <<"1">>, <<"2">> }

DigitVal(c) == CASE c = "0" -> 0 [] c = "1" -> 1 [] c = "2" -> 2

\* the line without its leading and trailing blanks
Strip(s) ==
    LET nonblank == {k \in 1..Len(s) : s[k] # " "}
    IN  IF nonblank = {} THEN << >>
        ELSE SubSeq(s, CHOOSE k \in nonblank : \A m \in nonblank : k <= m,
                       CHOOSE k \in nonblank : \A m \in nonblank : m <= k)

RECURSIVE DecimalValue(_)
DecimalValue(ds) ==
    IF ds = << >> THEN 0
    ELSE 10 * DecimalValue(SubSeq(ds, 1, Len(ds) - 1)) + DigitVal(ds[Len(ds)])

\* int(line): blanks around the number are dropped, then an optional sign
\* and at least one decimal digit; anything else is a ValueError (ok = FALSE)
ParseInt(s) ==
    LET t == Strip(s)
        neg == t # << >> /\ t[1] = "-"
        body == IF neg THEN SubSeq(t, 2, Len(t)) ELSE t
    IN  IF body # << >> /\ \A k \in 1..Len(body) : body[k] \in Digits
        THEN [ok |-> TRUE,
              value |-> IF neg THEN -DecimalValue(body) ELSE DecimalValue(body)]
        ELSE [ok |-> FALSE, value |-> 0]

IsPositiveOrZero(v) == v >= 0

\* the test "columns > 0" / "width > 0" that leaves a prompt loop
IsPositive(v) == v > 0

\* what one pass of a prompt loop does with the line it read
Reply(line) ==
    IF ~ParseInt(line).ok THEN "Please enter a valid number."
    ELSE IF IsPositive(ParseInt(line).value) THEN "accepted"
    ELSE "Please enter a positive number."

EOF == <<"EOF">>

\* the lines an input() call may read here
LinesFor(cap) ==
    IF caller = "main"
    THEN {e \in MainEntries : ParseInt(e).value <= cap}
    ELSE Entries

\* an uncaught exception leaves get_user_input
GiRaisedPc == IF caller = "main" THEN "main_uncaught" ELSE "gi_raised"

\* one pass of the first "while True" loop
GiAskColumns ==
    /\ pc = "gi_columns"
    /\ \/ \E line \in LinesFor(MaxColumns) :
             /\ reads < MaxEntries
             /\ reads' = reads + 1
             /\ console' = Append(console,
                    [q |-> "columns", line |-> line, reply |-> Reply(line)])
             /\ in_columns' = IF ParseInt(line).ok THEN ParseInt(line).value
                              ELSE in_columns
             /\ IF Reply(line) = "accepted"
                THEN /\ pc' = "gi_width"
                     /\ accepted' = ParseInt(line).value
                ELSE /\ pc' = "gi_columns"
                     /\ accepted' = accepted
             /\ exc' = exc
       \/ /\ console' = Append(console,
                    [q |-> "columns", line |-> EOF, reply |-> "EOFError"])
          /\ exc' = [type |-> "EOFError", msg |-> "EOF when reading a line"]
          /\ pc' = GiRaisedPc
          /\ UNCHANGED <<reads, in_columns, accepted>>
    /\ UNCHANGED in_width
    /\ UNCHANGED <<caller, images, columns, i, rows, page_width, page_height,
                   mosaic_width, mosaic_height, mosaic, placed, call, first, given>>
    /\ UNCHANGED mainVars

\* one pass of the second "while True" loop; leaving it returns
\* (columns, width)
GiAskWidth ==
    /\ pc = "gi_width"
    /\ \/ \E line \in LinesFor(MaxPageWidth) :
             /\ reads < MaxEntries
             /\ reads' = reads + 1
             /\ console' = Append(console,
                    [q |-> "width", line |-> line, reply |-> Reply(line)])
             /\ in_width' = IF ParseInt(line).ok THEN ParseInt(line).value
                            ELSE in_width
             /\ IF Reply(line) = "accepted"
                THEN /\ pc' = IF caller = "main" THEN "main_render" ELSE "gi_returned"
                     /\ steps' = IF caller = "main" THEN Append(steps, "prompts")
                                 ELSE steps
                ELSE /\ pc' = "gi_width"
                     /\ steps' = steps
             /\ exc' = exc
       \/ /\ console' = Append(console,
                    [q |-> "width", line |-> EOF, reply |-> "EOFError"])
          /\ exc' = [type |-> "EOFError", msg |-> "EOF when reading a line"]
          /\ pc' = GiRaisedPc
          /\ UNCHANGED <<reads, in_width, steps>>
    /\ UNCHANGED <<in_columns, accepted>>
    /\ UNCHANGED <<caller, images, columns, i, rows, page_width, page_height,
                   mosaic_width, mosaic_height, mosaic, placed, call, first, given>>
    /\ UNCHANGED <<page_count, printed, failure, exit_code, output_written>>

InitInput ==
    /\ pc = "gi_columns"
    /\ caller = "direct"
    /\ images = << >>
    /\ columns = Unset
    /\ given = [images |-> << >>, columns |-> Unset]
    /\ InitLocals
    /\ InitInputIdle
    /\ InitMainIdle

NextInput ==
    \/ GiAskColumns
    \/ GiAskWidth

SpecInput == InitInput /\ [][NextInput]_vars

\* ------------------------------------------------------------------------
\* main
\* ------------------------------------------------------------------------

AfterErrorContinue(kind) ==
    IF kind = "missing_file"
    THEN [pc |-> "main_page_count", exit_code |-> NoExit]
    ELSE [pc |-> "exit", exit_code |-> 1]

\* sys.exit(1) after an error message, and the interpreter's exit after an
\* uncaught exception: the run ends with exit code 1
AfterError(kind) == [pc |-> "exit", exit_code |-> 1]

Fail(kind, msg) ==
    /\ failure' = kind
    /\ printed' = Append(printed, msg)
    /\ pc' = AfterError(kind).pc
    /\ exit_code' = AfterError(kind).exit_code

\* parser.parse_args(): a bad command line ends the run with exit code 2
MainArgs ==
    /\ pc = "main_args"
    /\ \/ /\ pc' = "main_exists"
          /\ UNCHANGED <<failure, printed, exit_code>>
       \/ /\ failure' = "usage"
          /\ printed' = Append(printed, "usage: the following arguments are required")
          /\ pc' = "exit"
          /\ exit_code' = 2
    /\ UNCHANGED <<caller, page_count, steps, output_written>>
    /\ UNCHANGED mosaicVars
    /\ UNCHANGED inputVars

\* if not os.path.exists(args.pdf_file): print, sys.exit(1)
MainExists ==
    /\ pc = "main_exists"
    /\ \E exists \in BOOLEAN :
          IF exists
          THEN /\ pc' = "main_page_count"
               /\ steps' = Append(steps, "exists")
               /\ UNCHANGED <<failure, printed, exit_code>>
          ELSE /\ Fail("missing_file", "Error: PDF file not found.")
               /\ steps' = steps
    /\ UNCHANGED <<caller, page_count, output_written>>
    /\ UNCHANGED mosaicVars
    /\ UNCHANGED inputVars

\* page_count = get_pdf_page_count(args.pdf_file), then get_user_input()
\* is called
MainPageCount ==
    /\ pc = "main_page_count"
    /\ \/ \E n \in 0..MaxPages :
             /\ page_count' = n
             /\ steps' = Append(steps, "page_count")
             /\ pc' = "gi_columns"
             /\ UNCHANGED <<failure, printed, exit_code>>
       \/ /\ Fail("pdf_read", "Error reading PDF")
          /\ UNCHANGED <<page_count, steps>>
    /\ UNCHANGED <<caller, output_written>>
    /\ UNCHANGED mosaicVars
    /\ UNCHANGED inputVars

\* convert_pdf_to_images: doc = fitz.open(pdf_path); images = []
MainRenderOpen ==
    /\ pc = "main_render"
    /\ \/ /\ pc' = "main_render_loop"
          /\ images' = << >>
          /\ UNCHANGED <<failure, printed, exit_code>>
       \/ /\ Fail("render", "Error converting PDF to images")
          /\ images' = images
    /\ UNCHANGED <<caller, page_count, steps, output_written>>
    /\ UNCHANGED <<columns, i, rows, page_width, page_height,
                   mosaic_width, mosaic_height, mosaic, placed, exc, call, first, given>>
    /\ UNCHANGED inputVars

\* one iteration of "for page_num in range(len(doc))": the page is rendered
\* with zoom_factor = target_width / original_width, so the bitmap is
\* target_width wide and as high as the page's aspect ratio makes it
MainRenderPage ==
    /\ pc = "main_render_loop"
    /\ Len(images) < page_count
    /\ \/ \E h \in 1..MaxPageHeight :
             /\ images' = Append(images, [width |-> in_width, height |-> h])
             /\ UNCHANGED <<pc, failure, printed, exit_code>>
       \/ /\ Fail("render", "Error converting PDF to images")
          /\ images' = images
    /\ UNCHANGED <<caller, page_count, steps, output_written>>
    /\ UNCHANGED <<columns, i, rows, page_width, page_height,
                   mosaic_width, mosaic_height, mosaic, placed, exc, call, first, given>>
    /\ UNCHANGED inputVars

\* doc.close(); return images; then mosaic = create_mosaic(images, columns)
MainRenderDone ==
    /\ pc = "main_render_loop"
    /\ Len(images) = page_count
    /\ steps' = Append(steps, "render")
    /\ columns' = in_columns
    /\ given' = [images |-> images, columns |-> in_columns]
    /\ pc' = "cm_entry"
    /\ UNCHANGED <<caller, page_count, failure, printed, exit_code, output_written>>
    /\ UNCHANGED <<images, i, rows, page_width, page_height,
                   mosaic_width, mosaic_height, mosaic, placed, exc, call, first>>
    /\ UNCHANGED inputVars

\* an exception nobody catches: the interpreter prints the traceback and
\* the run ends
MainUncaught ==
    /\ pc = "main_uncaught"
    /\ Fail(IF exc = ValueErrorNoImages THEN "empty" ELSE exc.type,
            <<"Traceback", exc.type, exc.msg>>)
    /\ UNCHANGED <<caller, page_count, steps, output_written>>
    /\ UNCHANGED mosaicVars
    /\ UNCHANGED inputVars

\* mosaic.save(args.output, quality=95, optimize=True) and the final prints
MainSave ==
    /\ pc = "main_save"
    /\ \/ /\ output_written' = TRUE
          /\ steps' = Append(steps, "save")
          /\ pc' = "exit"
          /\ exit_code' = 0
          /\ UNCHANGED <<failure, printed>>
       \/ /\ Fail("save", <<"Traceback", "OSError", "cannot write the file">>)
          /\ UNCHANGED <<output_written, steps>>
    /\ UNCHANGED <<caller, page_count>>
    /\ UNCHANGED mosaicVars
    /\ UNCHANGED inputVars

InitMain ==
    /\ pc = "main_args"
    /\ caller = "main"
    /\ images = << >>
    /\ columns = Unset
    /\ given = [images |-> << >>, columns |-> Unset]
    /\ InitLocals
    /\ InitInputIdle
    /\ InitMainIdle

NextMain ==
    \/ MainArgs
    \/ MainExists
    \/ MainPageCount
    \/ GiAskColumns
    \/ GiAskWidth
    \/ MainRenderOpen
    \/ MainRenderPage
    \/ MainRenderDone
    \/ CmEntry
    \/ CmSize
    \/ CmNew
    \/ CmPlace
    \/ CmReturn
    \/ MainUncaught
    \/ MainSave

SpecMain == InitMain /\ [][NextMain]_vars

\* ------------------------------------------------------------------------
\* Properties of create_mosaic (checked under SpecMosaic)
\* ------------------------------------------------------------------------

CmFinished == pc \in {"cm_returned", "cm_raised"}

\* the placement rectangle of page k (1-based), at the page's own size
Left(k) == placed[k][1]
Top(k) == placed[k][2]
Right(k) == placed[k][1] + images[k].width
Bottom(k) == placed[k][2] + images[k].height

Disjoint(a, b) ==
    \/ Right(a) <= Left(b)
    \/ Right(b) <= Left(a)
    \/ Bottom(a) <= Top(b)
    \/ Bottom(b) <= Top(a)

InRect(k, p) ==
    /\ Left(k) <= p[1] /\ p[1] < Right(k)
    /\ Top(k) <= p[2] /\ p[2] < Bottom(k)

\* C1: the placement rectangles of any two distinct pages placed so far are
\* disjoint, and in the returned canvas every pixel inside the rectangle of
\* page k carries the colour of page k (no later paste painted over it, so
\* the order of the pastes does not show in the result).
C1_NoOverlap ==
    /\ \A a, b \in 1..Len(placed) : a # b => Disjoint(a, b)
    /\ pc = "cm_returned" =>
          \A k \in 1..Len(placed) : \A p \in DOMAIN mosaic.pix :
              InRect(k, p) => mosaic.pix[p] = k

C1_Witness ==
    /\ pc = "cm_returned"
    /\ Len(placed) = 3
    /\ columns = 2
    /\ images[1].height > images[3].height

\* C2: every page placed lies inside the canvas: x >= 0, y >= 0,
\* x + width <= mosaic_width and y + height <= mosaic_height.
C2_InsideCanvas ==
    \A k \in 1..Len(placed) :
        /\ Left(k) >= 0
        /\ Top(k) >= 0
        /\ Right(k) <= mosaic_width
        /\ Bottom(k) <= mosaic_height

C2_Witness ==
    /\ pc = "cm_returned"
    /\ columns > Len(images)
    /\ ((columns - Len(images)) * images[1].width) % 2 = 1
    /\ Len(placed) = Len(images)

\* the row that holds the last page
LastRow == (Len(images) - 1) \div columns

\* C3: a page of an incomplete last row has x = col*page_width +
\* (columns - remaining_pages)*page_width // 2; every other page has
\* x = col*page_width; a single row with columns > page_count is centred.
C3_LastRowCentred ==
    \A k \in 1..Len(placed) :
        LET idx == k - 1
            row == idx \div columns
            col == idx % columns
            pw == images[1].width
            remaining == Len(images) - LastRow * columns
        IN  /\ row = LastRow /\ remaining < columns =>
                Left(k) = col * pw + ((columns - remaining) * pw) \div 2
            /\ (row # LastRow \/ remaining = columns) => Left(k) = col * pw
            /\ columns > Len(images) =>
                Left(k) = idx * pw + ((columns - Len(images)) * pw) \div 2

C3_Witness ==
    /\ pc = "cm_returned"
    /\ Len(images) = 3
    /\ columns = 2
    /\ images[1].width = 1
    /\ placed[3][1] = 0
    /\ placed[2][1] = 1

\* C4 as stated: a page shorter than page_height has
\* y = row*page_height + (page_height - height) // 2 and that y is strictly
\* greater than row*page_height; a page as tall as page_height has
\* y = row*page_height.
C4_Original ==
    \A k \in 1..Len(placed) :
        LET row == (k - 1) \div columns
            ph == MaxHeight(images)
            h == images[k].height
        IN  /\ h < ph => /\ Top(k) = row * ph + (ph - h) \div 2
                         /\ Top(k) > row * ph
            /\ h = ph => Top(k) = row * ph

\* C4 (amended): a page shorter than page_height has
\* y = row*page_height + (page_height - height) // 2, which is strictly
\* greater than row*page_height exactly when page_height - height >= 2 (a
\* page one pixel shorter gets the offset 0); a page as tall as page_height
\* has y = row*page_height.
C4_VerticalCentring ==
    \A k \in 1..Len(placed) :
        LET row == (k - 1) \div columns
            ph == MaxHeight(images)
            h == images[k].height
        IN  /\ h < ph => /\ Top(k) = row * ph + (ph - h) \div 2
                         /\ (Top(k) > row * ph <=> ph - h >= 2)
            /\ h = ph => Top(k) = row * ph

C4_Witness ==
    /\ pc = "cm_returned"
    /\ columns = 1
    /\ Len(images) = 2
    /\ images[1].height = 3
    /\ images[2].height = 1
    /\ placed[2][2] = 4

\* C5: for a non-empty page list and columns >= 1, rows is the ceiling of
\* page_count / columns (rows >= 1, rows*columns >= page_count,
\* rows*columns - page_count < columns), and the canvas allocated is exactly
\* columns*page_width wide and rows*page_height high, page_height being the
\* greatest page height.
C5_CanvasSize ==
    (columns >= 1 /\ pc \in {"cm_new", "cm_loop", "cm_returned"}) =>
        /\ rows >= 1
        /\ rows * columns >= Len(images)
        /\ rows * columns - Len(images) < columns
        /\ \A k \in 1..Len(images) : images[k].height <= page_height
        /\ \E k \in 1..Len(images) : images[k].height = page_height
        /\ mosaic_width = columns * images[1].width
        /\ mosaic_height = rows * page_height
        /\ mosaic.allocated =>
              DOMAIN mosaic.pix =
                  (0..(columns * images[1].width - 1)) \X (0..(rows * page_height - 1))

C5_Witness ==
    /\ pc = "cm_returned"
    /\ Len(images) = 3
    /\ columns = 2
    /\ rows = 2
    /\ images[2].height > images[1].height

\* exception types by which this code reports an invalid argument
InvalidInputErrorTypes == {"ValueError"}

C7_EmptyFails ==
    Len(images) = 0 =>
        /\ pc \in {"cm_entry", "cm_raised"}
        /\ rows = Unset
        /\ ~mosaic.allocated
        /\ placed = << >>
        /\ pc = "cm_raised" => exc = ValueErrorNoImages

C7_Witness ==
    /\ pc = "cm_raised"
    /\ Len(images) = 0
    /\ columns = 0
    /\ exc = ValueErrorNoImages

Questions(q) == {k \in 1..Len(console) : console[k].q = q}

\* C9: get_user_input returns only with columns > 0 and width > 0; a line
\* that is not an integer or not positive is answered by asking the same
\* question again; the width question comes only after a columns line was
\* accepted; once accepted, columns is neither asked again nor changed.
C9_Prompts ==
    /\ pc = "gi_returned" =>
          /\ in_columns > 0 /\ in_width > 0
          /\ in_columns = accepted
    /\ \A k \in 1..Len(console) :
          LET line == console[k].line
              valid == /\ line # EOF
                       /\ ParseInt(line).ok
                       /\ ParseInt(line).value > 0
          IN  /\ (line # EOF /\ ~valid /\ k < Len(console)) =>
                    console[k + 1].q = console[k].q
              /\ (line # EOF /\ ~valid /\ k = Len(console)) =>
                    pc = (IF console[k].q = "columns" THEN "gi_columns" ELSE "gi_width")
              /\ (valid /\ console[k].q = "columns") =>
                    /\ accepted = ParseInt(line).value
                    /\ in_columns = accepted
                    /\ \A m \in (k + 1)..Len(console) : console[m].q = "width"
              /\ console[k].q = "width" =>
                    /\ k > 1
                    /\ accepted > 0
                    /\ console[k - 1].q = "columns" =>
                          /\ console[k - 1].line # EOF
                          /\ ParseInt(console[k - 1].line).ok
                          /\ ParseInt(console[k - 1].line).value > 0

C9_Witness ==
    /\ pc = "gi_returned"
    /\ Len(console) = 3
    /\ console[1].q = "columns" /\ console[1].reply = "accepted"
    /\ console[2].q = "width" /\ console[2].line = <<"-", "1">>
    /\ console[3].q = "width" /\ console[3].reply = "accepted"
    /\ in_columns = accepted

\* ------------------------------------------------------------------------
\* Properties of main (checked under SpecMain)
\* ------------------------------------------------------------------------

AllSteps == <<"exists", "page_count", "prompts", "render", "compose", "save">>

\* the steps completed before the step at which a failure of this kind occurs
StepsBefore(kind) ==
    CASE kind = "missing_file" -> 0
      [] kind = "pdf_read" -> 1
      [] kind = "render" -> 3
      [] kind = "empty" -> 4

\* C10: the steps of a run complete in the order file check, page count,
\* prompts, render, compose, save, each at most once; a missing file, a PDF
\* read failure, a render failure or an empty page list ends the run with
\* exit code 1 after a message, with exactly the earlier steps completed;
\* the output file is written only when all earlier steps completed.
C10_StepOrder ==
    /\ Len(steps) <= Len(AllSteps)
    /\ steps = SubSeq(AllSteps, 1, Len(steps))
    /\ failure \in {"missing_file", "pdf_read", "render", "empty"} =>
          /\ pc = "exit"
          /\ exit_code = 1
          /\ printed # << >>
          /\ ~output_written
          /\ Len(steps) = StepsBefore(failure)
    /\ pc = "exit" => exit_code # NoExit
    /\ exit_code # NoExit => pc = "exit"
    /\ output_written => (steps = AllSteps /\ failure = "none" /\ exit_code = 0)
    /\ exit_code = 0 => output_written

C10_Witness ==
    /\ failure = "empty"
    /\ page_count = 0
    /\ exit_code = 1
    /\ steps = SubSeq(AllSteps, 1, 4)

====
